---- MODULE Spec2Model ----
(***************************************************************************)
(* Model of bevy_flycam (src/src/lib.rs): the cursor-grab toggle, the      *)
(* movement system player_move, the look system player_look, and the two   *)
(* plugins that register them.                                             *)
(*                                                                         *)
(* Numbers.  Angles are integers in milliradians.  A rotation is kept as   *)
(* its YXZ Euler triple [yaw, pitch, roll], which is what player_look      *)
(* extracts (to_euler) and rebuilds (from_axis_angle Y * from_axis_angle   *)
(* X).  Vectors built by player_move are kept symbolically, as integer     *)
(* coefficients on the basis (forward, right, Y) of the camera they were   *)
(* built from; forward and right are the horizontal projections of the     *)
(* camera's local z axis, so both have length cos(pitch).                  *)
(***************************************************************************)
EXTENDS Integers, Sequences, FiniteSets, TLC

VARIABLES
    build,        \* [plugin, initial_grab, look_keyboard]: plugin and cargo features
    window,       \* primary window: [avail, grab_mode, visible, width, height]
    cams,         \* the FlyCam entities, in entity order: Seq of [rot, translation]
    keys,         \* ButtonInput<KeyCode>: the keys held in this frame
    just_pressed, \* ButtonInput<KeyCode>: the keys that went down in this frame
    dt,           \* Time::delta_secs of this frame, in milliseconds
    unread,       \* MouseMotion events player_look's EventReader has not read
    phase,        \* "startup" or "update"
    pending,      \* systems of the current schedule that have not run yet
    frame,        \* number of the current frame (0 during Startup)
    last,         \* history: what the system that ran last saw and did
    snap,         \* history: the frame's starting cameras and what move/look saw
    hist          \* history: counters and logs the properties read

vars == <<build, window, cams, keys, just_pressed, dt, unread, phase, pending,
          frame, last, snap, hist>>

----------------------------------------------------------------------------
(* Bounds of the model *)

\* number of Update frames explored
MaxFrames == 2
\* number of frames an unread MouseMotion event stays readable (the engine
\* keeps events in two buffers that it swaps once per frame)
EventRetention == 2

----------------------------------------------------------------------------
(* Program constants *)

\* MovementSettings::default, in units of 1e-5, 1e-2 and 1
mouse_sensitivity == 12
keyboard_sensitivity == 5
move_speed == 12

\* pitch.clamp(-1.54, 1.54), in milliradians
PitchLimit == 1540

\* to_euler(EulerRot::YXZ) returns pitch in [-pi/2, pi/2] and yaw in (-pi, pi]
HalfPi == 1571
Pi == 3142

\* Transform::from_xyz(-2, 5, 5).looking_at(ZERO, Y): yaw = atan2(-2, 5),
\* pitch = -asin(5 / sqrt(54))
InitialYaw == -381
InitialPitch == -748

key_bindings ==
    [ move_forward |-> "KeyW", move_backward |-> "KeyS",
      move_left |-> "KeyA", move_right |-> "KeyD",
      move_ascend |-> "Space", move_descend |-> "ShiftLeft",
      toggle_grab_cursor |-> "Escape",
      look_left |-> "ArrowLeft", look_right |-> "ArrowRight",
      look_up |-> "ArrowUp", look_down |-> "ArrowDown" ]

MoveKeys == {"KeyW", "KeyS", "KeyA", "KeyD", "Space", "ShiftLeft"}

CursorGrabMode == {"None", "Confined", "Locked"}

----------------------------------------------------------------------------
(* Inputs the environment draws from *)

\* what a frame's input can be: the held keys, the mouse motion queued for the
\* frame, in pixels, as <<dx, dy>>, and whether the primary window exists
FrameInputs ==
    { [ks |-> {"KeyW", "ArrowRight", "ArrowDown"}, motion |-> << <<10, 0>> >>,
       window |-> TRUE],
      [ks |-> {"Escape"}, motion |-> << <<0, 3000>> >>, window |-> TRUE],
      [ks |-> {"Escape", "KeyW", "KeyD"}, motion |-> <<>>, window |-> TRUE],
      [ks |-> {"ArrowUp", "ArrowLeft", "Space", "KeyQ"},
       motion |-> << <<-7, -3000>>, <<3, 4>> >>, window |-> TRUE],
      [ks |-> {"Escape", "KeyW", "ArrowUp"}, motion |-> << <<10, 0>> >>,
       window |-> FALSE] }

\* every combination of the six movement keys, with no mouse motion
AllMoveKeyInputs ==
    { [ks |-> k, motion |-> <<>>, window |-> TRUE] : k \in SUBSET MoveKeys }

DeltaTimes == {16}

WindowSizes == { <<1280, 720>> }

\* the orientations a host gives the cameras it spawns, in spawning order:
\* straight down, rolled and near the pitch limit, level
HostRotations ==
    << [yaw |-> 1200, pitch |-> -HalfPi, roll |-> 0],
       [yaw |-> -2000, pitch |-> 1535, roll |-> 250] >>

----------------------------------------------------------------------------
(* Arithmetic *)

Abs(n) == IF n < 0 THEN -n ELSE n

\* n / d rounded to the nearest integer, halves away from zero (d > 0)
RoundDiv(n, d) ==
    IF n >= 0 THEN (2 * n + d) \div (2 * d) ELSE -((2 * (-n) + d) \div (2 * d))

\* f32::to_radians of an angle given in 1e-5 degrees; result in milliradians
to_radians(x) == RoundDiv(RoundDiv(x, 100) * Pi, 180000)

Min(a, b) == IF a < b THEN a ELSE b

\* a yaw as to_euler reports the rotation built from it
WrapYaw(y) == ((y + Pi - 1) % (2 * Pi - 1)) - (Pi - 1)

----------------------------------------------------------------------------
(* Vectors of player_move *)

\* f * forward + r * right + u * Y, where forward and right are those of a
\* camera with the given yaw and pitch (right also of the given roll when it is
\* the camera's own x axis); unit: the vector has been normalised
Vec3(f, r, u, rot) ==
    [f |-> f, r |-> r, u |-> u, yaw |-> rot.yaw, pitch |-> rot.pitch,
     roll |-> rot.roll, unit |-> FALSE]

ZERO == [f |-> 0, r |-> 0, u |-> 0, yaw |-> 0, pitch |-> 0, roll |-> 0, unit |-> FALSE]

\* Vec3::Y
Y == [ZERO EXCEPT !.u = 1]

\* the horizontal part vanishes: no coefficient, or cos(pitch) = 0
HorizZero(v) == (v.f = 0 /\ v.r = 0) \/ Abs(v.pitch) = HalfPi

IsZeroVec(v) == v.u = 0 /\ HorizZero(v)

\* one record per vector: fields that do not change the vector are cleared
Canon(v) ==
    IF HorizZero(v)
    THEN [ZERO EXCEPT !.u = v.u, !.unit = v.unit]
    ELSE [v EXCEPT !.pitch = IF v.u = 0 /\ v.unit THEN 0 ELSE v.pitch,
                   !.roll = IF v.r = 0 THEN 0 ELSE v.roll]

\* v + s * w  (s is 1 or -1); w is a basis vector of the camera or Y
AddScaled(v, s, w) ==
    [f |-> v.f + s * w.f, r |-> v.r + s * w.r, u |-> v.u + s * w.u,
     yaw |-> IF w.f # 0 \/ w.r # 0 THEN w.yaw ELSE v.yaw,
     pitch |-> IF w.f # 0 \/ w.r # 0 THEN w.pitch ELSE v.pitch,
     roll |-> IF w.r # 0 THEN w.roll ELSE v.roll,
     unit |-> FALSE]

\* Vec3::normalize_or_zero without the division: the vector is returned as is
normalize_skipped(v) == Canon(v)

\* Vec3::normalize_or_zero
normalize_or_zero(v) ==
    IF IsZeroVec(v) THEN ZERO ELSE Canon([v EXCEPT !.unit = TRUE])

\* |v| = 1.  Not normalised, |v|^2 = (f^2 + r^2) cos^2(pitch) + u^2 with
\* f, r, u in -1..1, which is 1 only for a single vertical unit or a single
\* horizontal unit of a level camera
LengthIsOne(v) ==
    IF v.unit THEN ~IsZeroVec(v)
    ELSE \/ (HorizZero(v) /\ v.u * v.u = 1)
         \/ (v.u = 0 /\ v.f * v.f + v.r * v.r = 1 /\ v.pitch = 0)

\* right taken from the camera's own x axis, which rolls with the camera
right_local_x(rot) == Vec3(0, 1, 0, rot)

\* let forward = -Vec3::new(local_z.x, 0., local_z.z)
forward(rot) == Vec3(1, 0, 0, [rot EXCEPT !.roll = 0])

\* let right = Vec3::new(local_z.z, 0., -local_z.x)
right(rot) == Vec3(0, 1, 0, [rot EXCEPT !.roll = 0])

\* translation += velocity * time.delta_secs() * settings.move_speed
Advance(translation, velocity, d, speed) ==
    IF IsZeroVec(velocity) \/ d * speed = 0 THEN translation
    ELSE [translation EXCEPT
            !.moves = Append(@, [vel |-> velocity, dt |-> d, speed |-> speed])]

----------------------------------------------------------------------------
(* toggle_grab_cursor *)

Cursor(w) == [grab_mode |-> w.grab_mode, visible |-> w.visible]

\* the toggle with the visibility assignments swapped
toggle_swapped(c) ==
    IF c.grab_mode = "None"
    THEN [grab_mode |-> "Confined", visible |-> TRUE]
    ELSE [grab_mode |-> "None", visible |-> FALSE]

\* the toggle without its releasing arm
toggle_always_grab(c) == [grab_mode |-> "Confined", visible |-> FALSE]

toggle_grab_cursor(c) ==
    IF c.grab_mode = "None"
    THEN [grab_mode |-> "Confined", visible |-> FALSE]
    ELSE [grab_mode |-> "None", visible |-> TRUE]

SetCursor(w, c) == [w EXCEPT !.grab_mode = c.grab_mode, !.visible = c.visible]

----------------------------------------------------------------------------
(* player_move, for one camera *)

\* the body of the loop over keys.get_pressed()
MoveKey(velocity, key, grab_mode, fwd, rgt) ==
    IF grab_mode = "None" THEN velocity
    ELSE IF key = key_bindings.move_forward THEN AddScaled(velocity, 1, fwd)
    ELSE IF key = key_bindings.move_backward THEN AddScaled(velocity, -1, fwd)
    ELSE IF key = key_bindings.move_left THEN AddScaled(velocity, -1, rgt)
    ELSE IF key = key_bindings.move_right THEN AddScaled(velocity, 1, rgt)
    ELSE IF key = key_bindings.move_ascend THEN AddScaled(velocity, 1, Y)
    ELSE IF key = key_bindings.move_descend THEN AddScaled(velocity, -1, Y)
    ELSE velocity

RECURSIVE MoveKeysLoop(_, _, _, _, _)
MoveKeysLoop(velocity, ks, grab_mode, fwd, rgt) ==
    IF ks = {} THEN velocity
    ELSE LET key == CHOOSE k \in ks : TRUE
         IN  MoveKeysLoop(MoveKey(velocity, key, grab_mode, fwd, rgt),
                          ks \ {key}, grab_mode, fwd, rgt)

\* the velocity player_move advances the position by
Velocity(rot, grab_mode, ks) ==
    normalize_or_zero(MoveKeysLoop(ZERO, ks, grab_mode, forward(rot), right(rot)))

MoveOne(cam, grab_mode, ks, d) ==
    [cam EXCEPT !.translation =
        Advance(@, Velocity(cam.rot, grab_mode, ks), d, move_speed)]

MoveAll(cs, grab_mode, ks, d) ==
    [i \in 1..Len(cs) |-> MoveOne(cs[i], grab_mode, ks, d)]

----------------------------------------------------------------------------
(* player_look, for one camera *)

\* clamp with the lower bound forgotten
clamp_upper_only(p) == IF p > PitchLimit THEN PitchLimit ELSE p

\* pitch.clamp(-1.54, 1.54)
clamp(p) ==
    IF p < -PitchLimit THEN -PitchLimit
    ELSE IF p > PitchLimit THEN PitchLimit ELSE p

\* window.height().min(window.width())
window_scale(w) == Min(w.height, w.width)

\* the loop over state.read(): ev is <<dx, dy>>
RECURSIVE MouseLoop(_, _, _)
MouseLoop(yp, evs, scale) ==
    IF evs = <<>> THEN yp
    ELSE LET ev == Head(evs)
         IN  MouseLoop(
                [yaw |-> yp.yaw - to_radians(mouse_sensitivity * ev.dx * scale),
                 pitch |-> yp.pitch - to_radians(mouse_sensitivity * ev.dy * scale)],
                Tail(evs), scale)

\* the body of the loop over keys.get_pressed() (feature look-control-keyboard)
LookKey(yp, key, d, scale) ==
    LET step == to_radians(keyboard_sensitivity * d * scale)
    IN  IF key = key_bindings.look_up THEN [yp EXCEPT !.pitch = @ + step]
        ELSE IF key = key_bindings.look_down THEN [yp EXCEPT !.pitch = @ - step]
        ELSE IF key = key_bindings.look_left THEN [yp EXCEPT !.yaw = @ + step]
        ELSE IF key = key_bindings.look_right THEN [yp EXCEPT !.yaw = @ - step]
        ELSE yp

RECURSIVE LookKeysLoop(_, _, _, _)
LookKeysLoop(yp, ks, d, scale) ==
    IF ks = {} THEN yp
    ELSE LET key == CHOOSE k \in ks : TRUE
         IN  LookKeysLoop(LookKey(yp, key, d, scale), ks \ {key}, d, scale)

\* yaw and pitch after the match on grab_mode; evs are the events state.read()
\* yields for this camera
LookInput(rot, grab_mode, keyboard, evs, ks, d, scale) ==
    LET yp == [yaw |-> rot.yaw, pitch |-> rot.pitch]
    IN  IF grab_mode = "None" THEN yp
        ELSE IF keyboard THEN LookKeysLoop(yp, ks, d, scale)
        ELSE MouseLoop(yp, evs, scale)

\* Quat::from_axis_angle(Y, yaw) * Quat::from_axis_angle(X, pitch)
Rotation(yaw, pitch) == [yaw |-> WrapYaw(yaw), pitch |-> pitch, roll |-> 0]

LookOne(cam, grab_mode, keyboard, evs, ks, d, scale) ==
    LET yp == LookInput(cam.rot, grab_mode, keyboard, evs, ks, d, scale)
    IN  [cam EXCEPT !.rot = Rotation(yp.yaw, clamp(yp.pitch))]

\* state.read() drains the reader: the camera iterated first gets every unread
\* event, the cameras after it get none
EventsFor(i, first, evs) == IF i = first THEN evs ELSE <<>>

LookAll(cs, first, grab_mode, keyboard, evs, ks, d, scale) ==
    [i \in 1..Len(cs) |->
        LookOne(cs[i], grab_mode, keyboard, EventsFor(i, first, evs), ks, d, scale)]

\* whether this run of player_look calls state.read()
ReadsEvents(cs, grab_mode, keyboard) ==
    Len(cs) > 0 /\ grab_mode # "None" /\ ~keyboard

----------------------------------------------------------------------------
(* State *)

StartupSystems(b) ==
    (IF b.plugin = "PlayerPlugin" THEN {"setup_player"} ELSE {})
    \cup (IF b.initial_grab THEN {"initial_grab_cursor"} ELSE {})
    \cup (IF b.initial_grab /\ b.plugin = "NoCameraPlayerPlugin"
          THEN {"initial_grab_on_flycam_spawn"} ELSE {})

UpdateSystems == {"player_move", "player_look", "cursor_grab"}

NoStep ==
    [sys |-> "none", avail |-> TRUE, grab |-> "None",
     cursor_pre |-> [grab_mode |-> "None", visible |-> TRUE],
     pre |-> <<>>, applied |-> <<>>, first |-> 0, ks |-> {}]

Step(sys, first, applied) ==
    [sys |-> sys, avail |-> window.avail, grab |-> window.grab_mode,
     cursor_pre |-> Cursor(window), pre |-> cams, applied |-> applied,
     first |-> first, ks |-> keys]

NoSnap ==
    [cams |-> <<>>, moved |-> FALSE, looked |-> FALSE, move_grab |-> "None",
     look_grab |-> "None", look_first |-> 0, look_events |-> <<>>]

Init ==
    /\ build \in [plugin : {"PlayerPlugin", "NoCameraPlayerPlugin"},
                  initial_grab : BOOLEAN, look_keyboard : BOOLEAN]
    /\ \E size \in WindowSizes :
          window = [avail |-> TRUE, grab_mode |-> "None", visible |-> TRUE,
                    width |-> size[1], height |-> size[2]]
    /\ cams = <<>>
    /\ keys = {}
    /\ just_pressed = {}
    /\ dt = 0
    /\ unread = <<>>
    /\ phase = "startup"
    /\ pending = StartupSystems(build)
    /\ frame = 0
    /\ last = NoStep
    /\ snap = NoSnap
    /\ hist = [initial_grabs |-> 0, key_toggles |-> 0, toggles |-> <<>>,
               always_avail |-> window.avail, host_spawns |-> 0,
               look_free |-> {}, look_nowin |-> {}]

\* a toggle_grab_cursor call is logged: the cursor states the last two
\* consecutive calls started from
LogToggle(h, c) ==
    [h EXCEPT !.toggles = IF Len(@) < 2 THEN Append(@, c) ELSE <<@[2], c>>]

----------------------------------------------------------------------------
(* Startup schedule *)

\* fn setup_player
setup_player ==
    /\ phase = "startup" /\ "setup_player" \in pending
    /\ pending' = pending \ {"setup_player"}
    /\ cams' = Append(cams,
          [rot |-> [yaw |-> InitialYaw, pitch |-> InitialPitch, roll |-> 0],
           translation |-> [base |-> <<-2, 5, 5>>, moves |-> <<>>]])
    /\ last' = Step("setup_player", 0, <<>>)
    /\ UNCHANGED <<build, window, keys, just_pressed, dt, unread, phase, frame,
                   snap, hist>>

\* fn initial_grab_cursor
initial_grab_cursor ==
    /\ phase = "startup" /\ "initial_grab_cursor" \in pending
    /\ pending' = pending \ {"initial_grab_cursor"}
    /\ IF window.avail
       THEN /\ window' = SetCursor(window, toggle_grab_cursor(Cursor(window)))
            /\ hist' = [LogToggle(hist, Cursor(window)) EXCEPT !.initial_grabs = @ + 1]
       ELSE UNCHANGED <<window, hist>>
    /\ last' = Step("initial_grab_cursor", 0, <<>>)
    /\ UNCHANGED <<build, cams, keys, just_pressed, dt, unread, phase, frame, snap>>

\* fn initial_grab_on_flycam_spawn; the system's first run sees every FlyCam
\* that exists as Added
initial_grab_on_flycam_spawn ==
    /\ phase = "startup" /\ "initial_grab_on_flycam_spawn" \in pending
    /\ pending' = pending \ {"initial_grab_on_flycam_spawn"}
    /\ IF Len(cams) = 0 THEN UNCHANGED <<window, hist>>
       ELSE IF window.avail
       THEN /\ window' = SetCursor(window, toggle_grab_cursor(Cursor(window)))
            /\ hist' = [LogToggle(hist, Cursor(window)) EXCEPT !.initial_grabs = @ + 1]
       ELSE UNCHANGED <<window, hist>>
    /\ last' = Step("initial_grab_on_flycam_spawn", 0, <<>>)
    /\ UNCHANGED <<build, cams, keys, just_pressed, dt, unread, phase, frame, snap>>

----------------------------------------------------------------------------
(* The host application and the engine around the plugin *)

\* the host spawns an entity with FlyCam and a Transform, between schedules or
\* before a Startup system runs
HostSpawn ==
    /\ hist.host_spawns < Len(HostRotations)
    /\ phase = "startup" \/ pending = {}
    /\ cams' = Append(cams,
          [rot |-> HostRotations[hist.host_spawns + 1],
           translation |-> [base |-> <<0, 0, 0>>, moves |-> <<>>]])
    /\ hist' = [hist EXCEPT !.host_spawns = @ + 1]
    /\ last' = Step("host_spawn", 0, <<>>)
    /\ snap' = NoSnap
    /\ UNCHANGED <<build, window, keys, just_pressed, dt, unread, phase, pending,
                   frame>>

\* the engine starts a frame: input and time are updated, mouse motion is
\* queued, events older than the retention are dropped, Update is scheduled
BeginFrameWith(inputs) ==
    /\ pending = {}
    /\ frame < MaxFrames
    /\ frame' = frame + 1
    /\ phase' = "update"
    /\ pending' = UpdateSystems
    /\ dt' \in DeltaTimes
    /\ \E in \in inputs :
          /\ window' = [window EXCEPT !.avail = in.window]
          /\ keys' = in.ks
          /\ just_pressed' = in.ks \ keys
          /\ unread' =
                SelectSeq(unread, LAMBDA e : e.frame + EventRetention > frame')
                \o [i \in 1..Len(in.motion) |->
                      [dx |-> in.motion[i][1], dy |-> in.motion[i][2],
                       frame |-> frame']]
    /\ last' = Step("begin_frame", 0, <<>>)
    /\ snap' = [NoSnap EXCEPT !.cams = cams]
    /\ hist' = [hist EXCEPT !.always_avail = @ /\ window'.avail]
    /\ UNCHANGED <<build, cams>>

BeginFrame == BeginFrameWith(FrameInputs)

----------------------------------------------------------------------------
(* Update schedule *)

\* fn cursor_grab
cursor_grab ==
    /\ phase = "update" /\ "cursor_grab" \in pending
    /\ pending' = pending \ {"cursor_grab"}
    /\ IF window.avail /\ key_bindings.toggle_grab_cursor \in just_pressed
       THEN /\ window' = SetCursor(window, toggle_grab_cursor(Cursor(window)))
            /\ hist' = [LogToggle(hist, Cursor(window)) EXCEPT !.key_toggles = @ + 1]
       ELSE UNCHANGED <<window, hist>>
    /\ last' = Step("cursor_grab", 0, <<>>)
    /\ UNCHANGED <<build, cams, keys, just_pressed, dt, unread, phase, frame, snap>>

\* fn player_move
player_move ==
    /\ phase = "update" /\ "player_move" \in pending
    /\ pending' = pending \ {"player_move"}
    /\ cams' = IF window.avail
               THEN MoveAll(cams, window.grab_mode, keys, dt)
               ELSE cams
    /\ last' = Step("player_move", 0, <<>>)
    /\ snap' = [snap EXCEPT !.moved = TRUE, !.move_grab = window.grab_mode]
    /\ UNCHANGED <<build, window, keys, just_pressed, dt, unread, phase, frame, hist>>

\* fn player_look; first is the camera query.iter_mut() yields first
player_look ==
    /\ phase = "update" /\ "player_look" \in pending
    /\ pending' = pending \ {"player_look"}
    /\ \E first \in (IF Len(cams) = 0 THEN {0} ELSE 1..Len(cams)) :
          LET reads == window.avail
                       /\ ReadsEvents(cams, window.grab_mode, build.look_keyboard)
              evs == IF reads THEN unread ELSE <<>>
          IN  /\ cams' = IF window.avail
                         THEN LookAll(cams, first, window.grab_mode,
                                      build.look_keyboard, evs, keys, dt,
                                      window_scale(window))
                         ELSE cams
              /\ unread' = IF reads THEN <<>> ELSE unread
              /\ last' = Step("player_look", first, evs)
              /\ snap' = [snap EXCEPT !.looked = TRUE,
                                      !.look_grab = window.grab_mode,
                                      !.look_first = first, !.look_events = evs]
    /\ hist' = [hist EXCEPT
                  !.look_free = IF window.avail /\ window.grab_mode = "None"
                                THEN @ \cup {frame} ELSE @,
                  !.look_nowin = IF ~window.avail THEN @ \cup {frame} ELSE @]
    /\ UNCHANGED <<build, window, keys, just_pressed, dt, phase, frame>>

----------------------------------------------------------------------------
(* Specifications *)

Next ==
    \/ setup_player
    \/ initial_grab_cursor
    \/ initial_grab_on_flycam_spawn
    \/ HostSpawn
    \/ BeginFrame
    \/ cursor_grab
    \/ player_move
    \/ player_look

Spec == Init /\ [][Next]_vars

\* The host hands the plugin a window whose cursor options it has set itself:
\* any grab mode with any visibility.
InitHostCursor ==
    /\ build \in [plugin : {"PlayerPlugin", "NoCameraPlayerPlugin"},
                  initial_grab : {TRUE}, look_keyboard : {FALSE}]
    /\ \E size \in WindowSizes, g \in CursorGrabMode, v \in BOOLEAN :
          window = [avail |-> TRUE, grab_mode |-> g, visible |-> v,
                    width |-> size[1], height |-> size[2]]
    /\ cams = <<>>
    /\ keys = {}
    /\ just_pressed = {}
    /\ dt = 0
    /\ unread = <<>>
    /\ phase = "startup"
    /\ pending = StartupSystems(build)
    /\ frame = 0
    /\ last = NoStep
    /\ snap = NoSnap
    /\ hist = [initial_grabs |-> 0, key_toggles |-> 0, toggles |-> <<>>,
               always_avail |-> TRUE, host_spawns |-> 0,
               look_free |-> {}, look_nowin |-> {}]

SpecHost == InitHostCursor /\ [][Next]_vars

\* The first frame with any combination of the movement keys held.
BeginFrameAllKeys == frame = 0 /\ BeginFrameWith(AllMoveKeyInputs)

InitKeys == Init /\ ~build.look_keyboard

NextKeys ==
    \/ setup_player
    \/ initial_grab_cursor
    \/ initial_grab_on_flycam_spawn
    \/ HostSpawn
    \/ BeginFrameAllKeys
    \/ cursor_grab
    \/ player_move
    \/ player_look

SpecKeys == InitKeys /\ [][NextKeys]_vars

----------------------------------------------------------------------------
(* Properties *)

Ran(sys) == last.sys = sys /\ last.avail

Captured == last.grab # "None"

Cams == 1..Len(cams)

\* C1: in a tick where the grab mode is free when player_move and player_look
\* run, every camera's transform after the system equals its transform before.
C1_FreeNoTransformChange ==
    (last.sys \in {"player_move", "player_look"} /\ last.avail /\ last.grab = "None")
        => cams = last.pre

\* C2: after any player_look update every camera's pitch is within
\* [-1.54, 1.54]; a pitch the input would take past a bound is at the bound.
C2_PitchClamped ==
    Ran("player_look") =>
        \A i \in Cams :
            LET p == cams[i].rot.pitch
                want == LookInput(last.pre[i].rot, last.grab, build.look_keyboard,
                                  EventsFor(i, last.first, last.applied), last.ks,
                                  dt, window_scale(window)).pitch
            IN  /\ -PitchLimit <= p /\ p <= PitchLimit
                /\ want > PitchLimit => p = PitchLimit
                /\ want < -PitchLimit => p = -PitchLimit
                /\ (-PitchLimit <= want /\ want <= PitchLimit) => p = want

\* a look update clamped a pitch at each bound's side: mouse motion took it past
C2_Witness ==
    /\ Ran("player_look") /\ Captured /\ last.applied # <<>>
    /\ \E i \in Cams :
          /\ cams[i].rot.pitch = -PitchLimit
          /\ last.pre[i].rot.pitch > -PitchLimit
          /\ last.pre[i].rot.pitch < PitchLimit

\* C3: the grab mode and the visibility flag are consistent as a pair:
\* confined iff hidden, free iff visible.
Consistent(c) ==
    /\ (c.grab_mode = "Confined") <=> ~c.visible
    /\ (c.grab_mode = "None") <=> c.visible

C3_GrabVisiblePair == Consistent(Cursor(window))

\* the cursor was grabbed at startup and the toggle key has released it
C3_Witness ==
    /\ hist.initial_grabs = 1 /\ hist.key_toggles = 1
    /\ window.grab_mode = "None" /\ window.visible

\* C4 as stated: two toggle_grab_cursor calls in a row return the window to the
\* (grab mode, visibility) pair the first started from, whatever that pair was.
C4_ToggleTwiceAnyPair ==
    Len(hist.toggles) = 2 => Cursor(window) = hist.toggles[1]

\* C4 amended: two toggles in a row return to the starting pair when it is
\* (free, visible) or (confined, hidden); from any other pair they end in one
\* of those two, which is not the starting pair.
C4_ToggleTwice ==
    Len(hist.toggles) = 2 =>
        LET orig == hist.toggles[1]
        IN  IF Consistent(orig)
            THEN Cursor(window) = orig
            ELSE Cursor(window) # orig /\ Consistent(Cursor(window))

\* two toggles were applied in a row, starting from (confined, hidden)
C4_Witness ==
    /\ Len(hist.toggles) = 2
    /\ hist.toggles[1] = [grab_mode |-> "Confined", visible |-> FALSE]
    /\ hist.toggles[2] = [grab_mode |-> "None", visible |-> TRUE]
    /\ Cursor(window) = hist.toggles[1]

\* the held movement keys, axis by axis: +1, -1, or 0 when none or both are held
Held(k) == IF k \in last.ks THEN 1 ELSE 0
NetForward == Held(key_bindings.move_forward) - Held(key_bindings.move_backward)
NetRight == Held(key_bindings.move_right) - Held(key_bindings.move_left)
NetUp == Held(key_bindings.move_ascend) - Held(key_bindings.move_descend)
KeysCancel == NetForward = 0 /\ NetRight = 0 /\ NetUp = 0

\* camera i was not moved by the last system
Still(i) == cams[i].translation = last.pre[i].translation

\* the displacement the last system gave camera i is a unit velocity times
\* delta-time times move_speed, added to where the camera was
UnitStep(i) ==
    LET m == cams[i].translation.moves
    IN  /\ Len(m) = Len(last.pre[i].translation.moves) + 1
        /\ SubSeq(m, 1, Len(m) - 1) = last.pre[i].translation.moves
        /\ cams[i].translation.base = last.pre[i].translation.base
        /\ LengthIsOne(m[Len(m)].vel)
        /\ m[Len(m)].dt = dt /\ m[Len(m)].speed = move_speed

\* camera i's local z axis is vertical: it looks straight up or down
Vertical(i) == Abs(last.pre[i].rot.pitch) = HalfPi

\* C5 as stated: with the cursor captured, the velocity is a unit vector, and
\* zero only when no movement key is held or the held keys cancel.
C5_UnitVelocityAnyOrientation ==
    (Ran("player_move") /\ Captured) =>
        \A i \in Cams :
            /\ Still(i) \/ UnitStep(i)
            /\ Still(i) <=> KeysCancel

\* C5 amended: with the cursor captured, the velocity is a unit vector, and
\* zero only when no movement key is held, or the held keys cancel, or the
\* camera looks straight up or down and the vertical keys cancel.
C5_UnitVelocity ==
    (Ran("player_move") /\ Captured) =>
        \A i \in Cams :
            /\ Still(i) \/ UnitStep(i)
            /\ Still(i) <=> (KeysCancel \/ (Vertical(i) /\ NetUp = 0))

\* a diagonal combination moved a camera, by one unit step
C5_Witness ==
    /\ Ran("player_move") /\ Captured
    /\ NetForward = 1 /\ NetRight = 1 /\ NetUp = -1
    /\ \E i \in Cams : UnitStep(i) /\ ~Still(i)

\* C6 (look half): with two or more cameras and the cursor captured, every
\* camera gets the yaw and pitch change of the tick's mouse motion.
C6_SameLookDelta ==
    (Ran("player_look") /\ Captured /\ Len(cams) >= 2) =>
        \A i \in Cams :
            cams[i] = LookOne(last.pre[i], last.grab, build.look_keyboard,
                              last.applied, last.ks, dt, window_scale(window))

\* C7: in a tick without the primary window the three systems change nothing,
\* and once the window is back player_look turns the cameras by the mouse
\* motion of ticks it ran in, as if the window had never been missing.
C7_WindowMissingSkips ==
    /\ (last.sys \in UpdateSystems /\ ~last.avail) =>
          (cams = last.pre /\ Cursor(window) = last.cursor_pre)
    /\ Ran("player_look") =>
          \A k \in 1..Len(last.applied) :
              last.applied[k].frame \notin hist.look_nowin

StartupDone == phase = "update" \/ pending = {}

\* C8: with initial-grab-control and a window, the initial grab is applied
\* exactly once: at startup with PlayerPlugin; with NoCameraPlayerPlugin not
\* before a FlyCam exists; and until the toggle key is pressed the cursor then
\* stays confined and hidden.
C8_InitialGrabOnce ==
    (build.initial_grab /\ hist.always_avail) =>
        /\ (build.plugin = "NoCameraPlayerPlugin" /\ Len(cams) = 0)
              => hist.initial_grabs = 0
        /\ (StartupDone /\ (build.plugin = "PlayerPlugin" \/ Len(cams) > 0))
              => /\ hist.initial_grabs = 1
                 /\ hist.key_toggles = 0
                       => (window.grab_mode = "Confined" /\ ~window.visible)

\* what player_move and player_look of this frame do to a camera, given the
\* grab mode each system saw and the events player_look read
MoveCam(c) ==
    IF window.avail THEN MoveOne(c, snap.move_grab, keys, dt) ELSE c
LookCam(c, i) ==
    IF window.avail
    THEN LookOne(c, snap.look_grab, build.look_keyboard,
                 EventsFor(i, snap.look_first, snap.look_events), keys, dt,
                 window_scale(window))
    ELSE c
BothRan == snap.moved /\ snap.looked

C10_FreeMotionNeverApplied ==
    last.sys = "player_look" =>
        \A k \in 1..Len(last.applied) :
            last.applied[k].frame \notin hist.look_free

====
